---- MODULE Spec2Model ----
(***************************************************************************)
(* Model of src/bot.py: the scheduling bot's store (events_db and its      *)
(* storage.json image), the HTTP handlers create_event,                    *)
(* submit_availability, share_results and get_event_data, the Telegram     *)
(* handlers ask_event_mode and view_results, and the vote aggregation of   *)
(* generate_heatmap_image.                                                 *)
(*                                                                         *)
(* JSON values are tagged records: k is the Python type of the value.      *)
(* Scores are kept in half units (1.0 is 2, 0.5 is 1) so that the float    *)
(* accumulation of the source, whose addends are exactly 1.0 and 0.5, is   *)
(* exact integer arithmetic here.                                          *)
(***************************************************************************)
EXTENDS Integers, Sequences, FiniteSets, TLC

\* ------------------------------------------------------------------ bounds
MaxTime == 1
NumRand == 1
MaxStore == 2
MaxVoters == 2
MaxNest == 1

\* --------------------------------------------------------- program values
\* random.randint(100,999): the lowest value of the range
RandLow == 100
\* weights of a firm and of a tentative response, in half units
WeightYes == 2
WeightOther == 1

\* ------------------------------------------------------------- JSON values
JNull == [k |-> "null"]
JNum(n) == [k |-> "num", n |-> n]
JStr(s) == [k |-> "str", s |-> s]
JList(items) == [k |-> "list", items |-> items]
JDict(m) == [k |-> "dict", m |-> m]

\* a dict key must be hashable: str, int and None are, list and dict are not
Hashable(v) == v.k \in {"str", "num", "null"}

\* ------------------------------------------------ aggregation (lines 63-80)
\* the accumulator: slot_scores so far, or the TypeError of an unhashable key
EmptyAcc == [raised |-> FALSE, scores |-> <<>>]

\* a fault of AddScore: slot_scores[slot] = weight
AddScore_Assign(acc, slot, weight) ==
    IF acc.raised THEN acc
    ELSE IF ~Hashable(slot) THEN [acc EXCEPT !.raised = TRUE]
    ELSE [acc EXCEPT !.scores =
             [x \in DOMAIN acc.scores \cup {slot} |->
                 IF x = slot THEN weight ELSE acc.scores[x]]]

\* slot_scores[slot] = slot_scores.get(slot, 0) + weight
AddScore(acc, slot, weight) ==
    IF acc.raised THEN acc
    ELSE IF ~Hashable(slot) THEN [acc EXCEPT !.raised = TRUE]
    ELSE LET sc == acc.scores
         IN [acc EXCEPT !.scores =
                IF slot \in DOMAIN sc
                THEN [sc EXCEPT ![slot] = sc[slot] + weight]
                ELSE sc @@ (slot :> weight)]

\* for slot in user_votes: ... + 1.0
RECURSIVE AddList(_, _)
AddList(acc, items) ==
    IF items = <<>> THEN acc
    ELSE AddList(AddScore(acc, Head(items), WeightYes), Tail(items))

\* weight = 1.0 if type_val == 'yes' else 0.5
Weight(type_val) == IF type_val = JStr("yes") THEN WeightYes ELSE WeightOther

\* for slot, type_val in user_votes.items(): ... + weight
\* (the keys of a JSON mapping are strings; the accumulation is keyed, so
\* the iteration order of the mapping does not show in slot_scores)
RECURSIVE AddDict(_, _, _)
AddDict(acc, m, keys) ==
    IF keys = {} THEN acc
    ELSE LET key == CHOOSE x \in keys : TRUE
         IN AddDict(AddScore(acc, JStr(key), Weight(m[key])), m, keys \ {key})

\* one iteration of the loop over votes.values()
AddUserVotes(acc, user_votes) ==
    IF user_votes.k = "list" THEN AddList(acc, user_votes.items)
    ELSE IF user_votes.k = "dict"
    THEN LET inner == IF "slots" \in DOMAIN user_votes.m
                      THEN user_votes.m["slots"]
                      ELSE user_votes
         IN IF inner.k = "list" THEN AddList(acc, inner.items)
            ELSE IF inner.k = "dict" THEN AddDict(acc, inner.m, DOMAIN inner.m)
            ELSE acc
    ELSE acc

\* the loop over votes.values(), in the insertion order of the votes dict
RECURSIVE AggregateFrom(_, _)
AggregateFrom(acc, votes) ==
    IF votes = <<>> THEN acc
    ELSE AggregateFrom(AddUserVotes(acc, Head(votes).sub), Tail(votes))

slot_scores(votes) == AggregateFrom(EmptyAcc, votes)

\* a fault of total_users: the slots that have a score are counted
total_users_Slots(votes) == Cardinality(DOMAIN slot_scores(votes).scores)

\* total_users = len(votes)
total_users(votes) == Len(votes)

\* ------------------------------------------------- slot keys (lines 115-118)
\* slot.split('-') on the slot keys the model's inputs use
Parts(s) ==
    CASE s = "0-9" -> <<"0", "9">>
      [] s = "0-10" -> <<"0", "10">>
      [] s = "1-9" -> <<"1", "9">>
      [] s = "0-x" -> <<"0", "x">>
      [] s = "2024-06-01" -> <<"2024", "06", "01">>
      [] s = "2024-06-01-9" -> <<"2024", "06", "01", "9">>
      [] OTHER -> <<s>>

\* int(parts[-1]): the segments int() accepts, and their values
IntSegs == {"0", "1", "9", "10", "01", "06", "2024"}
IntOf(seg) ==
    CASE seg = "0" -> 0
      [] seg = "1" -> 1
      [] seg = "9" -> 9
      [] seg = "10" -> 10
      [] seg = "01" -> 1
      [] seg = "06" -> 6
      [] seg = "2024" -> 2024

\* "-".join(parts[:-1])
JoinPrefix(s) ==
    CASE s = "0-9" -> "0"
      [] s = "0-10" -> "0"
      [] s = "1-9" -> "1"
      [] s = "0-x" -> "0"
      [] s = "2024-06-01" -> "2024-06"
      [] s = "2024-06-01-9" -> "2024-06-01"
      [] OTHER -> ""

\* ------------------------------------ generate_heatmap_image (lines 47-145)
\* sorted(slot_scores.keys()) raises TypeError when keys of different
\* types are compared
SortRaises(scores) == \E a, b \in DOMAIN scores : a.k # b.k

\* the loop of lines 114-119 raises (AttributeError on a key that is not a
\* string, ValueError on a trailing segment int() rejects)
TimeLoopRaises(scores) ==
    \E slot \in DOMAIN scores :
        \/ slot.k # "str"
        \/ /\ Len(Parts(slot.s)) >= 2
           /\ Parts(slot.s)[Len(Parts(slot.s))] \notin IntSegs

\* data_points, with the slot each point comes from
DataPoints(scores) ==
    { [Date |-> JoinPrefix(slot.s),
       Hour |-> IntOf(Parts(slot.s)[Len(Parts(slot.s))]),
       Score |-> scores[slot],
       slot |-> slot.s] :
      slot \in { x \in DOMAIN scores : Len(Parts(x.s)) >= 2 } }

\* df.pivot raises ValueError when two points share (Hour, Date)
PivotRaises(points) ==
    \E p, q \in points : p # q /\ p.Hour = q.Hour /\ p.Date = q.Date

\* a cell of a DataFrame: a float, or NaN
Float(v) == [k |-> "float", v |-> v]
NaN == [k |-> "nan"]

\* df.pivot(index="Hour", columns="Date", values="Score") on points no two
\* of which share (Hour, Date): a cell without a point is NaN
pivot_table(points) ==
    LET index == {p.Hour : p \in points}
        columns == {p.Date : p \in points}
    IN [index |-> index, columns |-> columns,
        cell |-> [hour \in index, date \in columns |->
                    IF \E p \in points : p.Hour = hour /\ p.Date = date
                    THEN Float((CHOOSE p \in points : p.Hour = hour /\ p.Date = date).Score)
                    ELSE NaN]]

\* the strings the model's inputs use as keys, in Python's order of str
\* (by code point: "0-10" < "0-9" because "1" < "9")
StrOrder == <<"0-10", "0-9", "0-x", "1-9", "2024-06-01", "2024-06-01-9",
              "slots", "username">>
StrRank(s) == CHOOSE i \in DOMAIN StrOrder : StrOrder[i] = s

\* a < b for two keys of one type
KeyLess(a, b) ==
    IF a.k = "num" THEN a.n < b.n ELSE StrRank(a.s) < StrRank(b.s)

\* a fault of sorted_keys: the keys in descending order
sorted_keys_Reverse(keys) ==
    CHOOSE q \in [1..Cardinality(keys) -> keys] :
        \A i, j \in 1..Cardinality(keys) : i < j => KeyLess(q[j], q[i])

\* sorted(slot_scores.keys()) when the keys are of one type
RECURSIVE sorted_keys(_)
sorted_keys(keys) ==
    IF keys = {} THEN <<>>
    ELSE LET least == CHOOSE x \in keys : \A y \in keys \ {x} : KeyLess(x, y)
         IN <<least>> \o sorted_keys(keys \ {least})

\* dates and scores of lines 93-94, as one sequence of pairs
Bars(scores) ==
    LET dates == sorted_keys(DOMAIN scores)
    IN [i \in DOMAIN dates |-> [slot |-> dates[i], score |-> scores[dates[i]]]]

\* a fault of NoImage: the picture is returned all the same
NoImage_Picture(ret, total, scores) ==
    [rets |-> {"image"}, total_users |-> total, slot_scores |-> scores, points |-> {},
     bars |-> <<>>]

\* the value of a call that ends before the picture is drawn
NoImage(ret, total, scores) ==
    [rets |-> {ret}, total_users |-> total, slot_scores |-> scores, points |-> {},
     bars |-> <<>>]

\* The value of generate_heatmap_image(event_data).  rets is the set of the
\* ways the call can end: "raised" (an exception leaves the function),
\* "none" (it returns None), "image" (it returns the picture).  It has two
\* members only where the plotting library decides (a bar plot over keys
\* that are not strings).
generate_heatmap_image(event_data) ==
    IF event_data.t # "event" THEN NoImage("raised", 0, <<>>)
    ELSE LET votes == event_data.votes
             total == total_users(votes)
             acc == slot_scores(votes)
         IN IF votes = <<>> \/ total = 0 THEN NoImage("none", total, <<>>)
            ELSE IF acc.raised THEN NoImage("raised", total, <<>>)
            ELSE IF DOMAIN acc.scores = {} THEN NoImage("none", total, acc.scores)
            ELSE IF SortRaises(acc.scores) THEN NoImage("raised", total, acc.scores)
            ELSE IF event_data.mode = "date"
            THEN [rets |-> IF \A slot \in DOMAIN acc.scores : slot.k = "str"
                           THEN {"image"} ELSE {"image", "none"},
                  total_users |-> total, slot_scores |-> acc.scores, points |-> {},
                  bars |-> Bars(acc.scores)]
            ELSE IF TimeLoopRaises(acc.scores) THEN NoImage("none", total, acc.scores)
            ELSE LET points == DataPoints(acc.scores)
                 IN IF points = {} \/ PivotRaises(points)
                    THEN NoImage("none", total, acc.scores)
                    ELSE [rets |-> {"image"}, total_users |-> total,
                          slot_scores |-> acc.scores, points |-> points, bars |-> <<>>]

\* ------------------------------------------------------------------ state
VARIABLES
    events_db,   \* the in-memory store: key -> draft list or event dict
    file,        \* the content of storage.json
    now,         \* int(time.time())
    has_bot,     \* hasattr(app.state, "bot_app"): TOKEN was set at startup
    pc,          \* per handler: the await it is suspended at, or "idle"
    loc,         \* per handler in flight: the locals that live across awaits
    last,        \* the step just taken: its operation, inputs and reply
    submitted,   \* history: per key, user id -> the submission last sent
    promoted     \* history: the setup id whose draft create_event consumed last

vars == <<events_db, file, now, has_bot, pc, loc, last, submitted, promoted>>

Handlers == {"h1", "h2"}

\* ----------------------------------------------------------------- inputs
Rands == RandLow .. (RandLow + NumRand - 1)
TgChats == {"c1"}
Modes == {"time", "date"}
ArgsInputs == {<<>>, <<"x", "@a">>}
UserIdInputs == {JStr("u1"), JNum(2)}
Usernames == {"a", "b"}

\* f"{chat_id}_{int(time.time())}_{random.randint(100,999)}"
MakeId(chat_id, t, r) == chat_id \o "_" \o ToString(t) \o "_" \o ToString(r)

\* f"setup_{setup_id}"
SetupKey(setup_id) == "setup_" \o setup_id

\* the setup ids a client can send: none, or one ask_event_mode can issue
SetupIdInputs == {""} \cup {MakeId(c, t, r) : c \in TgChats, t \in 0..MaxTime, r \in Rands}

\* str(data.get("userId"))
PyStr(v) ==
    CASE v.k = "str" -> v.s
      [] v.k = "num" -> ToString(v.n)
      [] v.k = "null" -> "None"

\* the slots a client sends to submit_availability
SlotsBasic == {JList(<<JStr("0-9")>>)}
SlotsAll ==
    { JList(<<JStr("0-9")>>),
      JList(<<>>),
      JDict("0-9" :> JStr("maybe") @@ "0-10" :> JStr("yes")),
      JDict("slots" :> JList(<<JStr("0-10")>>) @@ "username" :> JStr("a")) }

\* ----------------------------------------------------------- store values
PyList(items) == [t |-> "list", items |-> items]

NewEvent(name, mode, chat_id, required_participants) ==
    [t |-> "event", name |-> name, mode |-> mode,
     start_date |-> "", end_date |-> "", chat_id |-> chat_id,
     required_participants |-> required_participants, votes |-> <<>>]

\* how many events deep the required_participants of a record are
\* themselves an event record (line 565 takes whatever the key holds)
RECURSIVE Nesting(_)
Nesting(record) ==
    IF record.t = "list" THEN 0
    ELSE IF record.required_participants.t = "list" THEN 0
    ELSE 1 + Nesting(record.required_participants)

\* a fault of NoChatId: every chat_id passes
NoChatId_Never(chat_id) == FALSE

\* "not chat_id" (line 557): the field is absent or empty
NoChatId(chat_id) == chat_id = ""

\* a fault of save_data: the file is opened for writing and left empty
save_data_Truncate(data) == <<>>

\* save_data(data): json.dump writes the dict as it is; its keys are
\* strings and its values came from JSON, so the file holds the same value
save_data(data) == data

\* events_db[key] = value
Put(db, key, value) ==
    [x \in DOMAIN db \cup {key} |-> IF x = key THEN value ELSE db[x]]

\* del events_db[key]
Del(db, key) == [x \in DOMAIN db \ {key} |-> db[x]]

\* votes is a dict in insertion order: a sequence of [uid, sub]
VoteIndex(votes, uid) == {i \in DOMAIN votes : votes[i].uid = uid}
HasVote(votes, uid) == VoteIndex(votes, uid) # {}
GetVote(votes, uid) == votes[CHOOSE i \in VoteIndex(votes, uid) : TRUE].sub
Voters(votes) == {votes[i].uid : i \in DOMAIN votes}

\* a fault of SetVote: an earlier submission of the user is kept
SetVote_KeepFirst(votes, uid, sub) ==
    IF HasVote(votes, uid) THEN votes ELSE Append(votes, [uid |-> uid, sub |-> sub])

\* a fault of SetVote: the votes dict is replaced by the one new entry
SetVote_Alone(votes, uid, sub) == <<[uid |-> uid, sub |-> sub]>>

\* event["votes"][user_id] = {"slots": slots, "username": username}
SetVote(votes, uid, sub) ==
    IF HasVote(votes, uid)
    THEN [i \in DOMAIN votes |-> IF votes[i].uid = uid
                                 THEN [uid |-> uid, sub |-> sub] ELSE votes[i]]
    ELSE Append(votes, [uid |-> uid, sub |-> sub])

\* mentions = [w for w in args if w.startswith("@")]
StartsWithAt(w) == w \in {"@a", "@b"}
Mentions(args) == SelectSeq(args, StartsWithAt)

\* history: the record written at key has no submissions yet
FreshKey(subs, db, key) ==
    [x \in DOMAIN db |-> IF x = key THEN <<>> ELSE subs[x]]

NoLoc == [event_id |-> "", chat_id |-> ""]
NoHeat == [ret |-> "", total_users |-> 0, slot_scores |-> <<>>, points |-> {},
           bars |-> <<>>]
NoLast == [op |-> "", status |-> "", message |-> "", event_id |-> "",
           chat_id |-> "", setup_id |-> "", user_id |-> "", slots |-> JNull,
           eventId |-> JNull, username |-> "", missing |-> {}, found |-> FALSE, replaced |-> FALSE, delivered |-> FALSE, body |-> JNull, heat |-> NoHeat]

\* the label of a step of operation op
Step(op) == [NoLast EXCEPT !.op = op]

\* the label of the step in which a handler of op returns
Reply(op, status, message) ==
    [NoLast EXCEPT !.op = op, !.status = status, !.message = message]

\* ------------------------------------------------------------------- Init
\* load_data() when storage.json does not exist
Init ==
    /\ events_db = <<>>
    /\ file = <<>>
    /\ now = 0
    /\ has_bot \in BOOLEAN
    /\ pc = [h \in Handlers |-> "idle"]
    /\ loc = [h \in Handlers |-> NoLoc]
    /\ last = NoLast
    /\ submitted = <<>>
    /\ promoted = ""

\* the handler returns: its locals are gone
Return(h, reply) ==
    /\ pc' = [pc EXCEPT ![h] = "idle"]
    /\ loc' = [loc EXCEPT ![h] = NoLoc]
    /\ last' = reply

\* the handler suspends at the await named next
Suspend(h, next, locals, label) ==
    /\ pc' = [pc EXCEPT ![h] = next]
    /\ loc' = [loc EXCEPT ![h] = locals]
    /\ last' = label

\* the clock
Tick ==
    /\ now < MaxTime
    /\ now' = now + 1
    /\ last' = NoLast
    /\ UNCHANGED <<events_db, file, has_bot, pc, loc, submitted, promoted>>

\* the event ids a client can send: a key of the store, or another string
EventIdInputs == DOMAIN events_db \cup {"missing"}

\* data.get("chat_id"): absent, the id of a Telegram chat, or any other
\* string the caller chooses
ChatIdInputs == {"", "c1", "setup_c1"}

\* data.get("eventId"): what the JSON body of a request can hold as eventId
JsonEventIdInputs == {JStr(id) : id \in EventIdInputs} \cup {JNull, JList(<<>>)}

\* the key a lookup of eventId uses.  The keys of the store are strings, so
\* a hashable eventId of another type misses like the key "" does
KeyOf(eventId) == IF eventId.k = "str" THEN eventId.s ELSE ""

\* ------------------------------------------ ask_event_mode (lines 242-279)
\* lines 243-267: the draft is stored and saved before the first await
ask_event_mode(h) ==
    /\ has_bot
    /\ pc[h] = "idle"
    /\ Cardinality(DOMAIN events_db) < MaxStore
    /\ \E chat \in TgChats, args \in ArgsInputs, r \in Rands :
         LET setup_id == MakeId(chat, now, r)
             mentions == Mentions(args)
             db == IF mentions # <<>>
                   THEN Put(events_db, SetupKey(setup_id), PyList(mentions))
                   ELSE events_db
         IN /\ events_db' = db
            /\ file' = IF mentions # <<>> THEN save_data(db) ELSE file
            /\ submitted' = IF mentions # <<>>
                            THEN FreshKey(submitted, db, SetupKey(setup_id))
                            ELSE submitted
            /\ Suspend(h, "ae_reply", NoLoc,
                       [Step("ask_event_mode") EXCEPT !.setup_id = setup_id, !.chat_id = chat])
    /\ UNCHANGED <<now, has_bot, promoted>>

\* lines 262-279: reply_text; BadRequest "Button_type_invalid" leads to the
\* fallback reply, any other exception leaves the handler
ask_event_mode_reply(h) ==
    /\ pc[h] = "ae_reply"
    /\ \E outcome \in {"ok", "button_invalid", "error"} :
         CASE outcome = "ok" ->
                Return(h, [Reply("ask_event_mode", "success", "") EXCEPT !.delivered = TRUE])
           [] outcome = "button_invalid" ->
                Suspend(h, "ae_fallback", loc[h], Step("ask_event_mode"))
           [] outcome = "error" ->
                Return(h, Reply("ask_event_mode", "raised", "BadRequest"))
    /\ UNCHANGED <<events_db, file, now, has_bot, submitted, promoted>>

\* lines 273-277
ask_event_mode_fallback(h) ==
    /\ pc[h] = "ae_fallback"
    /\ \E ok \in BOOLEAN :
         IF ok
         THEN Return(h, [Reply("ask_event_mode", "success", "") EXCEPT !.delivered = TRUE])
         ELSE Return(h, Reply("ask_event_mode", "raised", "Exception"))
    /\ UNCHANGED <<events_db, file, now, has_bot, submitted, promoted>>

\* -------------------------------------------- create_event (lines 546-638)
\* lines 548-580: from the request body that "await request.json()" yields
\* to save_data, with no await between (the handler holds nothing while it
\* waits for the body, so the step starts when the body is there)
create_event_body(h, ChatsIn, ModesIn) ==
    /\ pc[h] = "idle"
    /\ \E chat_id \in ChatsIn, setup_id \in SetupIdInputs, mode \in ModesIn, r \in Rands :
         IF NoChatId(chat_id)
         THEN /\ Return(h, [Reply("create_event", "error", "Missing chat_id")
                              EXCEPT !.setup_id = setup_id])
              /\ UNCHANGED <<events_db, file, submitted, promoted>>
         ELSE LET key == SetupKey(setup_id)
                  found == setup_id # "" /\ key \in DOMAIN events_db
                  required_participants == IF found THEN events_db[key] ELSE PyList(<<>>)
                  db1 == IF found THEN Del(events_db, key) ELSE events_db
                  event_id == MakeId(chat_id, now, r)
                  db2 == Put(db1, event_id, NewEvent("Event", mode, chat_id, required_participants))
                  label == [Step("create_event") EXCEPT !.setup_id = setup_id,
                               !.chat_id = chat_id, !.event_id = event_id, !.found = found]
              IN /\ Cardinality(DOMAIN db2) <= MaxStore
                 /\ Nesting(db2[event_id]) <= MaxNest
                 /\ events_db' = db2
                 /\ file' = save_data(db2)
                 /\ submitted' = FreshKey(submitted, db2, event_id)
                 /\ promoted' = IF found /\ events_db[key].t = "list"
                                THEN setup_id ELSE promoted
                 /\ IF has_bot
                    THEN Suspend(h, "ce_send",
                                 [NoLoc EXCEPT !.event_id = event_id, !.chat_id = chat_id], label)
                    ELSE Return(h, [label EXCEPT !.status = "success"])
    /\ UNCHANGED <<now, has_bot>>

\* lines 615-636: the announcement; BadRequest "Button_type_invalid" leads
\* to the fallback send, another BadRequest to an error reply, any other
\* exception leaves the handler
create_event_send(h) ==
    /\ pc[h] = "ce_send"
    /\ \E outcome \in {"ok", "button_invalid", "bad_request", "error"} :
         CASE outcome = "ok" ->
                Return(h, [Reply("create_event", "success", "") EXCEPT
                             !.event_id = loc[h].event_id, !.delivered = TRUE])
           [] outcome = "button_invalid" ->
                Suspend(h, "ce_fallback", loc[h], Step("create_event"))
           [] outcome = "bad_request" ->
                Return(h, Reply("create_event", "error", "BadRequest"))
           [] outcome = "error" ->
                Return(h, Reply("create_event", "raised", "Exception"))
    /\ UNCHANGED <<events_db, file, now, has_bot, submitted, promoted>>

\* lines 624-633
create_event_fallback(h) ==
    /\ pc[h] = "ce_fallback"
    /\ \E ok \in BOOLEAN :
         IF ok
         THEN Return(h, [Reply("create_event", "success", "") EXCEPT
                           !.event_id = loc[h].event_id, !.delivered = TRUE])
         ELSE Return(h, Reply("create_event", "error", "Exception"))
    /\ UNCHANGED <<events_db, file, now, has_bot, submitted, promoted>>

\* ------------------------------------- submit_availability (lines 513-544)
\* lines 515-528: from the request body to save_data, with no await between
submit_availability_body(h, UsersIn, NamesIn, SlotsIn) ==
    /\ pc[h] = "idle"
    /\ \E eventId \in JsonEventIdInputs, userId \in UsersIn,
          username \in NamesIn, slots \in SlotsIn :
         LET event_id == KeyOf(eventId)
             user_id == PyStr(userId)
             asked == [Step("submit_availability") EXCEPT !.event_id = event_id,
                          !.eventId = eventId]
             label == [asked EXCEPT
                          !.user_id = user_id, !.slots = slots, !.username = username,
                          !.replaced = /\ event_id \in DOMAIN events_db
                                       /\ events_db[event_id].t = "event"
                                       /\ HasVote(events_db[event_id].votes, user_id)]
         IN IF ~Hashable(eventId)
            THEN \* event_id not in events_db: TypeError, unhashable type
                 /\ Return(h, [asked EXCEPT !.status = "raised", !.message = "TypeError"])
                 /\ UNCHANGED <<events_db, file, submitted>>
            ELSE IF event_id \notin DOMAIN events_db
            THEN /\ Return(h, [asked EXCEPT !.status = "error", !.message = "Event not found"])
                 /\ UNCHANGED <<events_db, file, submitted>>
            ELSE IF events_db[event_id].t # "event"
            THEN \* event["votes"] on a list: TypeError
                 /\ Return(h, [asked EXCEPT !.status = "raised", !.message = "TypeError"])
                 /\ UNCHANGED <<events_db, file, submitted>>
            ELSE LET sub == JDict("slots" :> slots @@ "username" :> JStr(username))
                     db == [events_db EXCEPT ![event_id].votes = SetVote(@, user_id, sub)]
                 IN /\ events_db' = db
                    /\ file' = save_data(db)
                    /\ submitted' = [submitted EXCEPT ![event_id] =
                          [u \in DOMAIN @ \cup {user_id} |-> IF u = user_id THEN sub ELSE @[u]]]
                    /\ IF has_bot
                       THEN Suspend(h, "sa_send", NoLoc, label)
                       ELSE Return(h, [label EXCEPT !.status = "success"])
    /\ UNCHANGED <<now, has_bot, promoted>>

\* a fault of submit_availability_send: a failed confirmation fails the call
submit_availability_send_Fails(h) ==
    /\ pc[h] = "sa_send"
    /\ \E ok \in BOOLEAN :
         IF ok
         THEN Return(h, [Reply("submit_availability", "success", "") EXCEPT !.delivered = TRUE])
         ELSE Return(h, Reply("submit_availability", "error", "Exception"))
    /\ UNCHANGED <<events_db, file, now, has_bot, submitted, promoted>>

\* lines 531-544: the confirmation; every exception is logged and dropped
submit_availability_send(h) ==
    /\ pc[h] = "sa_send"
    /\ \E ok \in BOOLEAN :
         Return(h, [Reply("submit_availability", "success", "") EXCEPT !.delivered = ok])
    /\ UNCHANGED <<events_db, file, now, has_bot, submitted, promoted>>

\* ------------------------------------------ get_event_data (lines 507-511)
get_event_data(h) ==
    /\ pc[h] = "idle"
    /\ \E eventId \in EventIdInputs :
         IF eventId \notin DOMAIN events_db
         THEN Return(h, [Reply("get_event_data", "error", "Event not found")
                           EXCEPT !.event_id = eventId, !.eventId = JStr(eventId)])
         ELSE Return(h, [Reply("get_event_data", "success", "")
                           EXCEPT !.event_id = eventId, !.eventId = JStr(eventId),
                                  !.body = events_db[eventId]])
    /\ UNCHANGED <<events_db, file, now, has_bot, submitted, promoted>>

\* ------------------------------------------- share_results (lines 640-671)
\* lines 645-656
share_results_body(h) ==
    /\ pc[h] = "idle"
    /\ \E eventId \in JsonEventIdInputs :
         LET event_id == KeyOf(eventId)
             label == [Step("share_results") EXCEPT !.event_id = event_id,
                          !.eventId = eventId]
         IN IF ~Hashable(eventId)
            THEN \* event_id not in events_db: TypeError, unhashable type
                 Return(h, [label EXCEPT !.status = "raised", !.message = "TypeError"])
            ELSE IF event_id \notin DOMAIN events_db
            THEN Return(h, [label EXCEPT !.status = "error", !.message = "Event not found"])
            ELSE LET img == generate_heatmap_image(events_db[event_id])
                 IN \E ret \in img.rets :
                      LET heat == [ret |-> ret, total_users |-> img.total_users,
                                   slot_scores |-> img.slot_scores, points |-> img.points,
                                   bars |-> img.bars]
                          seen == [label EXCEPT !.heat = heat]
                      IN CASE ret = "raised" ->
                                Return(h, [seen EXCEPT !.status = "raised", !.message = "Exception"])
                           [] ret = "none" ->
                                Return(h, [seen EXCEPT !.status = "error", !.message = "No votes yet"])
                           [] ret = "image" ->
                                IF has_bot
                                THEN Suspend(h, "sr_send", NoLoc, seen)
                                ELSE Return(h, [seen EXCEPT !.status = "error",
                                                  !.message = "Bot instance not found"])
    /\ UNCHANGED <<events_db, file, now, has_bot, submitted, promoted>>

\* lines 658-669: send_photo; every exception becomes an error reply
share_results_send(h) ==
    /\ pc[h] = "sr_send"
    /\ \E ok \in BOOLEAN :
         IF ok
         THEN Return(h, [Reply("share_results", "success", "") EXCEPT !.delivered = TRUE])
         ELSE Return(h, Reply("share_results", "error", "Exception"))
    /\ UNCHANGED <<events_db, file, now, has_bot, submitted, promoted>>

\* -------------------------------------------- view_results (lines 340-431)
\* lines 345-391: the lookup and the summary, before the first await
view_results(h) ==
    /\ has_bot
    /\ pc[h] = "idle"
    /\ \E event_id \in EventIdInputs :
         LET label == [Step("view_results") EXCEPT !.event_id = event_id]
         IN IF event_id \notin DOMAIN events_db
            THEN Suspend(h, "vr_answer", NoLoc,
                         [label EXCEPT !.status = "error", !.message = "Event not found"])
            ELSE IF events_db[event_id].t # "event"
            THEN \* event.get on a list: AttributeError
                 Return(h, [label EXCEPT !.status = "raised", !.message = "AttributeError"])
            ELSE Suspend(h, "vr_answer", NoLoc,
                         [label EXCEPT !.status = "success", !.heat =
                            [NoHeat EXCEPT !.total_users = total_users(events_db[event_id].votes)]])
    /\ UNCHANGED <<events_db, file, now, has_bot, submitted, promoted>>

\* lines 354 and 406-431: the alert, or the edited message and the answer
view_results_answer(h) ==
    /\ pc[h] = "vr_answer"
    /\ Return(h, [Reply("view_results", "", "") EXCEPT !.delivered = TRUE])
    /\ UNCHANGED <<events_db, file, now, has_bot, submitted, promoted>>

\* ------------------------------------------ nudge_callback (lines 433-456)
\* set(event.get("required_participants", [])): the items of a list, the
\* keys of a dict
RequiredSet(required_participants) ==
    IF required_participants.t = "list"
    THEN {required_participants.items[i] : i \in DOMAIN required_participants.items}
    ELSE {"name", "mode", "start_date", "end_date", "chat_id",
          "required_participants", "votes"}

\* a fault of voted_usernames: nobody counts as having voted
voted_usernames_Nobody(votes) == {}

\* lines 445-448: "@" + username of every entry that is a dict with one
voted_usernames(votes) ==
    {"@" \o PyStr(votes[i].sub.m["username"]) :
        i \in {j \in DOMAIN votes : /\ votes[j].sub.k = "dict"
                                    /\ "username" \in DOMAIN votes[j].sub.m}}

\* lines 434-435: the callback arrives and is answered
nudge_callback(h) ==
    /\ has_bot
    /\ pc[h] = "idle"
    /\ \E event_id \in EventIdInputs :
         Suspend(h, "ng_answer", [NoLoc EXCEPT !.event_id = event_id],
                 Step("nudge_callback"))
    /\ UNCHANGED <<events_db, file, now, has_bot, submitted, promoted>>

\* lines 437-456: the lookup after the answer, and the reply, which is the
\* last thing the handler does
nudge_callback_reply(h) ==
    /\ pc[h] = "ng_answer"
    /\ LET event_id == loc[h].event_id
           label == [Step("nudge_callback") EXCEPT !.event_id = event_id]
       IN IF event_id \notin DOMAIN events_db
          THEN Return(h, [label EXCEPT !.status = "ignored"])
          ELSE IF events_db[event_id].t # "event"
          THEN \* event.get on a list: AttributeError
               Return(h, [label EXCEPT !.status = "raised", !.message = "AttributeError"])
          ELSE LET req == RequiredSet(events_db[event_id].required_participants)
                   missing == req \ voted_usernames(events_db[event_id].votes)
               IN IF req = {}
                  THEN Return(h, [label EXCEPT !.status = "success",
                                    !.message = "No specific participants required."])
                  ELSE IF missing # {}
                  THEN Return(h, [label EXCEPT !.status = "success",
                                    !.message = "Waiting on", !.missing = missing])
                  ELSE Return(h, [label EXCEPT !.status = "success",
                                    !.message = "Everyone has voted!"])
    /\ UNCHANGED <<events_db, file, now, has_bot, submitted, promoted>>

\* ---------------------------------------------------------- specifications
Next ==
    \/ Tick
    \/ \E h \in Handlers : ask_event_mode(h)
    \/ \E h \in Handlers : ask_event_mode_reply(h)
    \/ \E h \in Handlers : ask_event_mode_fallback(h)
    \/ \E h \in Handlers : create_event_body(h, {"", "c1"}, {"time"})
    \/ \E h \in Handlers : create_event_send(h)
    \/ \E h \in Handlers : create_event_fallback(h)
    \/ \E h \in Handlers : submit_availability_body(h, {JStr("u1")}, {"a"}, SlotsBasic)
    \/ \E h \in Handlers : submit_availability_send(h)
    \/ \E h \in Handlers : get_event_data(h)
    \/ \E h \in Handlers : share_results_body(h)
    \/ \E h \in Handlers : share_results_send(h)
    \/ \E h \in Handlers : view_results(h)
    \/ \E h \in Handlers : view_results_answer(h)

Spec == Init /\ [][Next]_vars

\* ------------------------------- keys under chat ids the caller chooses
NextKeys ==
    \/ Tick
    \/ \E h \in Handlers : ask_event_mode(h)
    \/ \E h \in Handlers : ask_event_mode_reply(h)
    \/ \E h \in Handlers : ask_event_mode_fallback(h)
    \/ \E h \in Handlers : create_event_body(h, ChatIdInputs, {"time"})
    \/ \E h \in Handlers : create_event_send(h)
    \/ \E h \in Handlers : create_event_fallback(h)

SpecKeys == Init /\ [][NextKeys]_vars

\* ------------------------------------------- voting on one stored event
\* the key and the record of an event create_event has made
EventKey == MakeId("c1", 0, RandLow)

\* load_data() on a storage.json that holds one event without votes
InitVote ==
    /\ \E mode \in Modes :
         events_db = (EventKey :> NewEvent("Event", mode, "c1", PyList(<<"@a">>)))
    /\ file = events_db
    /\ now = 0
    /\ has_bot \in BOOLEAN
    /\ pc = [h \in Handlers |-> "idle"]
    /\ loc = [h \in Handlers |-> NoLoc]
    /\ last = NoLast
    /\ submitted = (EventKey :> <<>>)
    /\ promoted = ""

NextVote ==
    \/ \E h \in Handlers : submit_availability_body(h, UserIdInputs, Usernames, SlotsAll)
    \/ \E h \in Handlers : submit_availability_send(h)
    \/ \E h \in Handlers : get_event_data(h)
    \/ \E h \in Handlers : share_results_body(h)
    \/ \E h \in Handlers : share_results_send(h)
    \/ \E h \in Handlers : view_results(h)
    \/ \E h \in Handlers : view_results_answer(h)

SpecVote == InitVote /\ [][NextVote]_vars

\* ------------------------------------------ submissions to two events
\* the key of a second event of the same chat, made a second later
OtherEventKey == MakeId("c1", 1, RandLow)

\* what the clients of this specification send as slots
SlotsTwo == { JList(<<JStr("0-9")>>),
              JDict("0-9" :> JStr("maybe") @@ "0-10" :> JStr("yes")) }

\* load_data() on a storage.json that holds two events without votes
InitSubmit ==
    /\ events_db = (EventKey :> NewEvent("Event", "time", "c1", PyList(<<"@a">>))
                    @@ OtherEventKey :> NewEvent("Event", "date", "c1", PyList(<<>>)))
    /\ file = events_db
    /\ now = 1
    /\ has_bot \in BOOLEAN
    /\ pc = [h \in Handlers |-> "idle"]
    /\ loc = [h \in Handlers |-> NoLoc]
    /\ last = NoLast
    /\ submitted = (EventKey :> <<>> @@ OtherEventKey :> <<>>)
    /\ promoted = ""

NextSubmit ==
    \/ \E h \in Handlers : submit_availability_body(h, UserIdInputs, {"a"}, SlotsTwo)
    \/ \E h \in Handlers : submit_availability_send(h)
    \/ \E h \in Handlers : get_event_data(h)

SpecSubmit == InitSubmit /\ [][NextSubmit]_vars

\* ------------------------------------- nudging the required participants
\* load_data() on a storage.json that holds one event without votes, made
\* from a /schedule command with one or two mentions
InitNudge ==
    /\ \E mentions \in {<<"@a">>, <<"@a", "@b">>} :
         events_db = (EventKey :> NewEvent("Event", "time", "c1", PyList(mentions)))
    /\ file = events_db
    /\ now = 0
    /\ has_bot = TRUE
    /\ pc = [h \in Handlers |-> "idle"]
    /\ loc = [h \in Handlers |-> NoLoc]
    /\ last = NoLast
    /\ submitted = (EventKey :> <<>>)
    /\ promoted = ""

NextNudge ==
    \/ \E h \in Handlers : submit_availability_body(h, UserIdInputs, Usernames, SlotsBasic)
    \/ \E h \in Handlers : submit_availability_send(h)
    \/ \E h \in Handlers : nudge_callback(h)
    \/ \E h \in Handlers : nudge_callback_reply(h)

SpecNudge == InitNudge /\ [][NextNudge]_vars

\* ------------------------------- results over a storage.json of any age
\* the submissions older versions and other clients have left in storage
LegacySubs ==
    { JList(<<JStr("0-9")>>),
      JList(<<JStr("0-9"), JStr("0-9")>>),
      JList(<<JNum(5)>>),
      JList(<<JList(<<>>)>>),
      JDict("0-9" :> JStr("yes") @@ "0-10" :> JStr("maybe")),
      JDict("0-9" :> JStr("")),
      JDict("slots" :> JList(<<JStr("0-10")>>) @@ "username" :> JStr("a")),
      JDict("slots" :> JDict("0-9" :> JStr("maybe")) @@ "username" :> JStr("a")),
      JDict("slots" :> JDict("slots" :> JList(<<JStr("0-9")>>) @@ "username" :> JStr("a"))
            @@ "username" :> JStr("a")),
      JList(<<JStr("0-9"), JStr("0-x")>>),
      JDict("slots" :> JList(<<JStr("1-9"), JStr("1-9")>>) @@ "username" :> JStr("b")),
      JNull,
      JStr("0-9") }

\* a votes dict of n entries, the i-th under the user id "p<i>"
LegacyVotes(n) ==
    { [i \in 1..n |-> [uid |-> "p" \o ToString(i), sub |-> f[i]]] : f \in [1..n -> LegacySubs] }

\* the history of a loaded votes dict: what it holds
AsSubmitted(votes) ==
    [u \in Voters(votes) |-> GetVote(votes, u)]

\* load_data() on a storage.json that holds one event with stored votes
InitAgg ==
    /\ \E mode \in Modes, n \in 0..MaxVoters : \E votes \in LegacyVotes(n) :
         /\ events_db = (EventKey :> [NewEvent("Event", mode, "c1", PyList(<<>>))
                                        EXCEPT !.votes = votes])
         /\ submitted = (EventKey :> AsSubmitted(votes))
    /\ file = events_db
    /\ now = 0
    /\ has_bot \in BOOLEAN
    /\ pc = [h \in Handlers |-> "idle"]
    /\ loc = [h \in Handlers |-> NoLoc]
    /\ last = NoLast
    /\ promoted = ""

NextAgg ==
    \/ \E h \in Handlers : get_event_data(h)
    \/ \E h \in Handlers : share_results_body(h)
    \/ \E h \in Handlers : share_results_send(h)
    \/ \E h \in Handlers : view_results(h)
    \/ \E h \in Handlers : view_results_answer(h)

SpecAgg == InitAgg /\ [][NextAgg]_vars

\* ------------------------------------- the handlers that write the store
\* ask_event_mode, create_event and submit_availability interleaved within
\* one second of the clock: every id is drawn for the same timestamp
NextWrite ==
    \/ \E h \in Handlers : ask_event_mode(h)
    \/ \E h \in Handlers : ask_event_mode_reply(h)
    \/ \E h \in Handlers : ask_event_mode_fallback(h)
    \/ \E h \in Handlers : create_event_body(h, {"", "c1"}, {"time"})
    \/ \E h \in Handlers : create_event_send(h)
    \/ \E h \in Handlers : create_event_fallback(h)
    \/ \E h \in Handlers : submit_availability_body(h, {JStr("u1")}, {"a"}, SlotsBasic)
    \/ \E h \in Handlers : submit_availability_send(h)

SpecWrite == Init /\ [][NextWrite]_vars

\* ------------------------------------------------------------------ claims
\* the body step of a create_event call that passed the chat_id test
CreateStep(label) == label.op = "create_event" /\ label.chat_id # ""

\* the body step of a submit_availability call that wrote the vote
SubmitStep(label) ==
    /\ label.op = "submit_availability"
    /\ label.user_id # ""
    /\ label.status \in {"", "success"}

\* share_results has just aggregated the votes of the event it names
Aggregated == last.op = "share_results" /\ last.heat.ret # ""
AggregatedVotes == events_db[last.event_id].votes

\* a create_event call, just made, with the setup id whose draft the last
\* promotion consumed, the draft key being absent
C1_SecondPromotion ==
    /\ CreateStep(last)
    /\ last.setup_id # ""
    /\ last.setup_id = promoted
    /\ ~last.found

\* C1: after create_event has promoted the draft of a setup id,
\* a later create_event call with that setup id returns a NotFound failure
\* and adds no event to the store.
C1_Claim ==
    C1_SecondPromotion =>
        /\ last.status = "error"
        /\ last.event_id \notin DOMAIN events_db

\* the second call has been made while the bot is running
C1_Witness == C1_SecondPromotion /\ has_bot

\* C2: a create_event call with a chat_id and a setup id whose draft exists
\* leaves the draft key absent and adds exactly one key, an event without
\* votes whose required_participants are the draft's participants.
C2_Claim ==
    [][ (CreateStep(last') /\ last'.found) =>
          LET key == SetupKey(last'.setup_id)
              added == DOMAIN events_db' \ DOMAIN events_db
          IN /\ key \notin DOMAIN events_db'
             /\ added = {last'.event_id}
             /\ events_db'[last'.event_id].votes = <<>>
             /\ events_db'[last'.event_id].required_participants = events_db[key] ]_vars

\* C3: after a submission of participant p to event e, votes[p] of e is
\* exactly what was sent, every other entry of e is as before, and so is
\* every other record of the store.
C3_Theorem ==
    [][ SubmitStep(last') =>
          LET e == last'.event_id
              u == last'.user_id
              old == events_db[e].votes
              new == events_db'[e].votes
          IN /\ Cardinality(VoteIndex(new, u)) = 1
             /\ GetVote(new, u) =
                  JDict("slots" :> last'.slots @@ "username" :> JStr(last'.username))
             /\ Voters(new) = Voters(old) \cup {u}
             /\ \A v \in Voters(old) \ {u} : GetVote(new, v) = GetVote(old, v)
             /\ [events_db'[e] EXCEPT !.votes = <<>>] = [events_db[e] EXCEPT !.votes = <<>>]
             /\ DOMAIN events_db' = DOMAIN events_db
             /\ \A k \in DOMAIN events_db \ {e} : events_db'[k] = events_db[k] ]_vars

\* a participant has just replaced an earlier submission, next to another
\* participant's entry
C3_Witness ==
    /\ SubmitStep(last)
    /\ last.replaced
    /\ Len(events_db[last.event_id].votes) = 2
    /\ \E k \in DOMAIN events_db \ {last.event_id} : events_db[k].votes # <<>>

\* C4: whatever the interleaving of the handlers, the votes of an event
\* hold, for every participant who has submitted, what that participant
\* sent last.
C4_Theorem ==
    \A k \in DOMAIN events_db :
        events_db[k].t = "event" =>
            \A u \in DOMAIN submitted[k] :
                /\ HasVote(events_db[k].votes, u)
                /\ GetVote(events_db[k].votes, u) = submitted[k][u]

\* both handlers are inside submit_availability, after their writes, for
\* two participants of the same event
C4_Witness ==
    /\ \A h \in Handlers : pc[h] = "sa_send"
    /\ \E k \in DOMAIN events_db :
         /\ events_db[k].t = "event"
         /\ Cardinality(Voters(events_db[k].votes)) = 2

\* C5: every created event gets an id that is no key of the store yet.
C5_Claim ==
    [][ CreateStep(last') => last'.event_id \notin DOMAIN events_db ]_vars

\* C6: the participant total, of the stored votes and as share_results and
\* view_results report it, is the number of distinct user ids that have
\* submitted to the event.
C6_Theorem ==
    \A k \in DOMAIN events_db :
        events_db[k].t = "event" =>
            /\ total_users(events_db[k].votes) = Cardinality(DOMAIN submitted[k])
            /\ (last.op \in {"share_results", "view_results"} /\ last.event_id = k)
                   => last.heat.total_users = Cardinality(DOMAIN submitted[k])

\* share_results counts two participants, one of whom picked no slot
C6_Witness ==
    /\ Aggregated
    /\ last.heat.total_users = 2
    /\ \E i \in DOMAIN AggregatedVotes :
         AggregatedVotes[i].sub.m["slots"] = JList(<<>>)

\* the submission without its wrapper, if it has one
Unwrap(sub) ==
    IF sub.k = "dict" /\ "slots" \in DOMAIN sub.m THEN sub.m["slots"] ELSE sub

\* a mapping of slot keys to responses
IsResponseMap(x) ==
    /\ x.k = "dict"
    /\ "slots" \notin DOMAIN x.m
    /\ \A key \in DOMAIN x.m : x.m[key].k = "str"

AllResponseMaps(votes) ==
    votes # <<>> /\ \A i \in DOMAIN votes : IsResponseMap(Unwrap(votes[i].sub))

\* the participants whose response for slot s is, or is not, "yes"
YesVoters(votes, s) ==
    {i \in DOMAIN votes : s \in DOMAIN Unwrap(votes[i].sub).m
                          /\ Unwrap(votes[i].sub).m[s] = JStr("yes")}
OtherVoters(votes, s) ==
    {i \in DOMAIN votes : s \in DOMAIN Unwrap(votes[i].sub).m
                          /\ Unwrap(votes[i].sub).m[s] # JStr("yes")}
NonEmptyOtherVoters(votes, s) ==
    {i \in OtherVoters(votes, s) : Unwrap(votes[i].sub).m[s] # JStr("")}
ListedSlots(votes) ==
    UNION {DOMAIN Unwrap(votes[i].sub).m : i \in DOMAIN votes}

\* C7: over mappings of slot key to response, the score of a
\* slot is 1.0 for every "yes" plus 0.5 for every other response that is
\* not empty.
C7_Claim ==
    (Aggregated /\ AllResponseMaps(AggregatedVotes)) =>
        LET sc == last.heat.slot_scores
        IN /\ DOMAIN sc \subseteq {JStr(s) : s \in ListedSlots(AggregatedVotes)}
           /\ \A s \in ListedSlots(AggregatedVotes) :
                JStr(s) \in DOMAIN sc =>
                    sc[JStr(s)] = WeightYes * Cardinality(YesVoters(AggregatedVotes, s))
                                  + WeightOther * Cardinality(NonEmptyOtherVoters(AggregatedVotes, s))

\* a slot with one "yes" and one empty response has been scored
C7_Witness ==
    /\ Aggregated
    /\ AllResponseMaps(AggregatedVotes)
    /\ \E s \in ListedSlots(AggregatedVotes) :
         /\ YesVoters(AggregatedVotes, s) # {}
         /\ OtherVoters(AggregatedVotes, s) # NonEmptyOtherVoters(AggregatedVotes, s)

\* a bare sequence of slot keys
IsKeyList(x) ==
    x.k = "list" /\ \A i \in DOMAIN x.items : x.items[i].k = "str"

\* the canonical map of a bare sequence: every listed key -> "yes"
CanonicalOf(x) ==
    JDict([s \in {x.items[i].s : i \in DOMAIN x.items} |-> JStr("yes")])

\* C8: a bare sequence of slot keys contributes what its canonical map
\* contributes, 1.0 per distinct key, also when it repeats a key.
C8_Claim ==
    (/\ Aggregated
     /\ \A i \in DOMAIN AggregatedVotes :
          IsKeyList(AggregatedVotes[i].sub) \/ IsResponseMap(Unwrap(AggregatedVotes[i].sub))) =>
        last.heat.slot_scores =
            slot_scores([i \in DOMAIN AggregatedVotes |->
                [AggregatedVotes[i] EXCEPT !.sub =
                    IF IsKeyList(@) THEN CanonicalOf(@) ELSE @]]).scores

\* C9: a submission {slots: X, ...} contributes what X alone contributes,
\* whatever accepted shape X has.
C9_Claim ==
    Aggregated =>
        last.heat.slot_scores =
            slot_scores([i \in DOMAIN AggregatedVotes |->
                [AggregatedVotes[i] EXCEPT !.sub = Unwrap(@)]]).scores

\* null, a scalar, or a sequence with an element that is no string
Malformed(x) ==
    \/ x.k \in {"null", "str", "num"}
    \/ x.k = "list" /\ \E i \in DOMAIN x.items : x.items[i].k # "str"

\* C10: with one malformed submission among the votes, aggregation does
\* not raise and scores the event as if that participant had picked no slot.
C10_Claim ==
    (/\ Aggregated
     /\ Cardinality({i \in DOMAIN AggregatedVotes : Malformed(AggregatedVotes[i].sub)}) = 1) =>
        /\ last.heat.ret # "raised"
        /\ last.heat.slot_scores =
             slot_scores([i \in DOMAIN AggregatedVotes |->
                 [AggregatedVotes[i] EXCEPT !.sub =
                     IF Malformed(@) THEN JList(<<>>) ELSE @]]).scores

\* a slot key of the time-mode shape <date>-<hour>
Recognised(slot) ==
    /\ slot.k = "str"
    /\ Len(Parts(slot.s)) >= 2
    /\ Parts(slot.s)[Len(Parts(slot.s))] \in IntSegs

\* C11: in a time-mode event whose slot keys are strings, some of the
\* recognised shape and some not, the export still succeeds and holds a
\* cell with the score of every recognised slot key.
C11_Claim ==
    (/\ Aggregated
     /\ events_db[last.event_id].mode = "time"
     /\ \A slot \in DOMAIN last.heat.slot_scores : slot.k = "str"
     /\ \E slot \in DOMAIN last.heat.slot_scores : Recognised(slot)
     /\ \E slot \in DOMAIN last.heat.slot_scores : ~Recognised(slot)) =>
        /\ last.heat.ret = "image"
        /\ \A slot \in DOMAIN last.heat.slot_scores :
             Recognised(slot) =>
                 \E p \in last.heat.points :
                     p.slot = slot.s /\ p.Score = last.heat.slot_scores[slot]

\* C12: every aggregated slot score is at most the participant total
\* (scores are in halves: a total of n is the score WeightYes * n).
C12_Claim ==
    Aggregated =>
        \A slot \in DOMAIN last.heat.slot_scores :
            last.heat.slot_scores[slot] <= WeightYes * last.heat.total_users

\* share_results has plotted the bars of a date-mode event
Plotted ==
    /\ Aggregated
    /\ events_db[last.event_id].mode = "date"
    /\ last.heat.ret = "image"

\* the plotted pairs are the aggregated scores, one pair per slot
BarsAreScores ==
    /\ {last.heat.bars[i].slot : i \in DOMAIN last.heat.bars} = DOMAIN last.heat.slot_scores
    /\ Len(last.heat.bars) = Cardinality(DOMAIN last.heat.slot_scores)
    /\ \A i \in DOMAIN last.heat.bars :
         last.heat.bars[i].score = last.heat.slot_scores[last.heat.bars[i].slot]

Permuted(votes, p) == [i \in DOMAIN votes |-> votes[p[i]]]

\* C14: the aggregated slot scores of an event are those of its votes
\* aggregated in any other order of the participants.
C14_Theorem ==
    Aggregated =>
        \A p \in Permutations(DOMAIN AggregatedVotes) :
            LET acc == slot_scores(Permuted(AggregatedVotes, p))
            IN last.heat.slot_scores = IF acc.raised THEN <<>> ELSE acc.scores

\* two participants gave the same slot different weights
C14_Witness ==
    /\ Aggregated
    /\ Len(AggregatedVotes) = 2
    /\ AggregatedVotes[1].sub # AggregatedVotes[2].sub
    /\ \E slot \in DOMAIN last.heat.slot_scores :
         last.heat.slot_scores[slot] = WeightYes + WeightOther

\* share_results has just been asked for an event without votes
SharedEmpty ==
    /\ last.op = "share_results"
    /\ last.event_id \in DOMAIN events_db
    /\ events_db[last.event_id].t = "event"
    /\ events_db[last.event_id].votes = <<>>

\* C15: for an event without votes the participant total is 0, there are
\* no slot scores, nothing is plotted or divided, and share_results answers
\* "No votes yet" without raising and without sending anything.
C15_Theorem ==
    SharedEmpty =>
        /\ last.status = "error"
        /\ last.message = "No votes yet"
        /\ last.heat.ret = "none"
        /\ last.heat.total_users = 0
        /\ last.heat.slot_scores = <<>>
        /\ last.heat.bars = <<>>
        /\ last.heat.points = {}
        /\ \A h \in Handlers : pc[h] # "sr_send"

\* the request came while the bot was running
C15_Witness == SharedEmpty /\ has_bot

\* the step of a handler that looked up an eventId that is no key
MissedLookup(label, db) ==
    /\ label.op \in {"submit_availability", "get_event_data", "share_results"}
    /\ label.eventId # JNull
    /\ ~(label.eventId.k = "str" /\ label.eventId.s \in DOMAIN db)

\* C16: submit_availability, get_event_data and share_results, called with
\* an eventId that is no key of the store, answer "Event not found", do
\* not raise and leave the store as it is.
C16_Claim ==
    [][ MissedLookup(last', events_db) =>
          /\ last'.status = "error"
          /\ last'.message = "Event not found"
          /\ events_db' = events_db
          /\ file' = file ]_vars

\* key.startswith("setup_"), over the keys the handlers can build
HasDraftPrefix(key) ==
    \E c \in ChatIdInputs \ {""}, t \in 0..MaxTime, r \in Rands :
        key = SetupKey(MakeId(c, t, r))

\* C17: every key of the store with the prefix setup_ holds a draft and
\* every other key holds an event.
C17_Claim ==
    \A key \in DOMAIN events_db :
        HasDraftPrefix(key) <=> events_db[key].t = "list"

\* C18: submit_availability whose eventId is the key of a draft answers
\* with a failure value, does not raise, and leaves the store as it is.
C18_Claim ==
    [][ (/\ last'.op = "submit_availability"
         /\ last'.event_id \in DOMAIN events_db
         /\ events_db[last'.event_id].t = "list") =>
          /\ last'.status = "error"
          /\ events_db' = events_db
          /\ file' = file ]_vars

\* share_results has drawn the table of a time-mode event
Tabled ==
    /\ Aggregated
    /\ events_db[last.event_id].mode = "time"
    /\ last.heat.ret = "image"

\* C19: in the time-mode table the cell at row hour and column date holds
\* the score of the slot key <date>-<hour>, and a cell of the table no slot
\* key exists for holds 0.
C19_Claim ==
    Tabled =>
        LET table == pivot_table(last.heat.points)
        IN /\ \A slot \in DOMAIN last.heat.slot_scores :
                Recognised(slot) =>
                    LET hour == IntOf(Parts(slot.s)[Len(Parts(slot.s))])
                        date == JoinPrefix(slot.s)
                    IN /\ hour \in table.index
                       /\ date \in table.columns
                       /\ table.cell[hour, date] = Float(last.heat.slot_scores[slot])
           /\ \A hour \in table.index, date \in table.columns :
                (~\E p \in last.heat.points : p.Hour = hour /\ p.Date = date)
                    => table.cell[hour, date] = Float(0)

\* nudge_callback has just replied for an event that requires participants
Nudged ==
    /\ last.op = "nudge_callback"
    /\ last.event_id \in DOMAIN events_db
    /\ events_db[last.event_id].t = "event"
    /\ RequiredSet(events_db[last.event_id].required_participants) # {}

\* the handles under which the participants of the event at key sent
\* their last submissions
Handles(key) ==
    {"@" \o submitted[key][u].m["username"].s : u \in DOMAIN submitted[key]}

\* C20: nudge reports as missing exactly the required participants without
\* a recorded submission, reports that everyone has voted exactly when
\* there is none, and the submissions of participants who are not required
\* are stored like any other.
C20_Theorem ==
    /\ Nudged =>
         LET req == RequiredSet(events_db[last.event_id].required_participants)
             waiting == req \ Handles(last.event_id)
         IN /\ last.missing = waiting
            /\ last.message = IF waiting = {} THEN "Everyone has voted!" ELSE "Waiting on"
    /\ \A key \in DOMAIN events_db :
         events_db[key].t = "event" =>
             \A u \in DOMAIN submitted[key] :
                 /\ HasVote(events_db[key].votes, u)
                 /\ GetVote(events_db[key].votes, u) = submitted[key][u]

\* one of two required participants is reported missing, the other has voted
C20_Witness ==
    /\ Nudged
    /\ last.missing = {"@b"}
    /\ Cardinality(RequiredSet(events_db[last.event_id].required_participants)) = 2

\* the step is the first one of a call: the handler that moves was idle
FirstStep == \A h \in Handlers : pc'[h] # pc[h] => pc[h] = "idle"

\* C21: create_event called without a chat_id returns an error and leaves
\* the store, the file and the draft its setup_id names as they are.
C21_Theorem ==
    [][ (/\ FirstStep
         /\ last'.op = "create_event"
         /\ last'.chat_id = "") =>
          /\ last'.status = "error"
          /\ last'.event_id = ""
          /\ pc' = pc
          /\ events_db' = events_db
          /\ file' = file
          /\ promoted' = promoted ]_vars

\* the call named a draft, and the draft is still in the store
C21_Witness ==
    /\ last.op = "create_event"
    /\ last.chat_id = ""
    /\ last.message = "Missing chat_id"
    /\ last.setup_id # ""
    /\ SetupKey(last.setup_id) \in DOMAIN events_db
    /\ events_db[SetupKey(last.setup_id)].t = "list"

\* the handler h suspends at the announcement of the event it has just stored
Announces(h) == pc[h] = "idle" /\ pc'[h] = "ce_send"

\* the handler h leaves create_event and no announcement was delivered
SendFails(h) ==
    /\ pc[h] \in {"ce_send", "ce_fallback"}
    /\ pc'[h] = "idle"
    /\ ~last'.delivered

\* C22: create_event stores and persists the new event and consumes the draft
\* before it attempts the announcement; when sending the announcement fails
\* the call returns an error status without an event id, and the event stays
\* in the store and the file and the consumed draft stays deleted.
C22_Claim ==
    [][ \A h \in Handlers :
          /\ Announces(h) =>
                /\ loc'[h].event_id \in DOMAIN events_db'
                /\ file' = events_db'
                /\ last'.found => SetupKey(last'.setup_id) \notin DOMAIN events_db'
          /\ SendFails(h) =>
                /\ last'.status = "error"
                /\ last'.event_id = ""
                /\ loc[h].event_id \in DOMAIN events_db'
                /\ events_db' = events_db
                /\ file' = file ]_vars

\* the handler h suspends at the confirmation of the vote it has just written
Confirms(h) == pc[h] = "idle" /\ pc'[h] = "sa_send"

\* the handler h leaves submit_availability after the attempt to confirm
Confirmed(h) == pc[h] = "sa_send" /\ pc'[h] = "idle"

\* C23: submit_availability writes the vote to the event and saves the store
\* before it attempts the confirmation message; whether or not the message
\* is delivered the call returns success and the store and the file are as
\* they were.
C23_Theorem ==
    [][ \A h \in Handlers :
          /\ Confirms(h) =>
                /\ last'.event_id \in DOMAIN events_db'
                /\ HasVote(events_db'[last'.event_id].votes, last'.user_id)
                /\ GetVote(events_db'[last'.event_id].votes, last'.user_id) =
                      JDict("slots" :> last'.slots @@ "username" :> JStr(last'.username))
                /\ file' = events_db'
          /\ Confirmed(h) =>
                /\ last'.status = "success"
                /\ events_db' = events_db
                /\ file' = file ]_vars

\* a confirmation was attempted and not delivered, and the file holds a vote
C23_Witness ==
    /\ has_bot
    /\ last.op = "submit_availability"
    /\ last.status = "success"
    /\ ~last.delivered
    /\ \E e \in DOMAIN file : file[e].t = "event" /\ file[e].votes # <<>>

\* C24: whenever a handler is suspended at an await or has finished, the
\* content of the storage file equals the in-memory store, under every
\* interleaving of ask_event_mode, create_event and submit_availability.
C24_Theorem == file = events_db

\* two handlers are suspended after their writes, one in create_event and
\* one in submit_availability, and the store holds a vote
C24_Witness ==
    /\ \E h \in Handlers : pc[h] \in {"ce_send", "ce_fallback"}
    /\ \E h \in Handlers : pc[h] = "sa_send"
    /\ \E e \in DOMAIN events_db :
          events_db[e].t = "event" /\ events_db[e].votes # <<>>
====
